---- MODULE Spec2Model ----
(***************************************************************************)
(* Model of scripts/data-validation.py: PipelineDataValidator.validate_all *)
(* and create_pipeline_ready_data, two processes over one file system.     *)
(*                                                                         *)
(* Values.  A cell of a CSV column is <<>> when it is missing (NaN) and    *)
(* <<v>> when it holds the number v.  An aggregated cell of a pivoted      *)
(* matrix is <<>> (NaN) or a reduced fraction <<n, d>> (n/d, d > 0), so    *)
(* that a mean of integers is exact.                                       *)
(***************************************************************************)
EXTENDS Integers, Sequences, FiniteSets, TLC

VARIABLES
    fs,          \* file system: path -> <<>> (no file) or <<content>>
    dirs,        \* directories that exist
    data_dir,    \* the data_dir both operations are given
    output_dir,  \* create_pipeline_ready_data's output_dir argument (<<>> = None)
    vpc,         \* validate_all: position in the code
    v_dets,      \* validate_all: detections_df  (<<>> before the read)
    v_inj,       \* validate_all: injections_df
    v_meta,      \* validate_all: meta_df
    v_out,       \* validate_all: locals / outcome (all_valid, results, exception)
    tpc,         \* create_pipeline_ready_data: position in the code
    t_dets,      \* create_pipeline_ready_data: detections_df
    ts,          \* create_pipeline_ready_data: ts      (<<>> before it is built)
    labels,      \* create_pipeline_ready_data: labels
    metadata     \* create_pipeline_ready_data: metadata

vars == <<fs, dirs, data_dir, output_dir, vpc, v_dets, v_inj, v_meta, v_out,
          tpc, t_dets, ts, labels, metadata>>

vvars == <<vpc, v_dets, v_inj, v_meta, v_out>>
tvars == <<tpc, t_dets, ts, labels, metadata>>

----------------------------------------------------------------------------
(* Bounds of the model *)

MaxDets == 2      \* rows of a freely drawn detections table
NEpochs == 5      \* epochs of the observation-mask tables

----------------------------------------------------------------------------
(* Missing values and exact arithmetic *)

NaN == <<>>

isna(x) == x = NaN

Num(v) == <<v>>

RECURSIVE GCD(_, _)
GCD(a, b) == IF b = 0 THEN a ELSE GCD(b, a % b)

\* n / d for n >= 0, d > 0, as a reduced fraction
Frac(n, d) == LET g == GCD(n, d) IN <<n \div g, d \div g>>

RECURSIVE SumSeq(_)
SumSeq(s) == IF s = <<>> THEN 0 ELSE Head(s) + SumSeq(Tail(s))

RECURSIVE MaxSeq(_)
MaxSeq(s) == IF Len(s) = 1 THEN s[1]
             ELSE LET m == MaxSeq(Tail(s)) IN IF s[1] > m THEN s[1] ELSE m

\* the elements of a finite set of integers in ascending order
RECURSIVE SortedSeq(_)
SortedSeq(S) == IF S = {} THEN <<>>
                ELSE LET m == CHOOSE x \in S : \A y \in S : x <= y
                     IN <<m>> \o SortedSeq(S \ {m})

----------------------------------------------------------------------------
(* Tables as pd.read_csv delivers them *)

required_cols == <<"object_id", "epoch_day", "mag", "flux", "mag_err", "flux_err">>

critical == <<"object_id", "epoch_day", "mag", "flux">>

SeqRange(s) == {s[i] : i \in 1..Len(s)}

AllCols == SeqRange(required_cols) \cup {"is_injection", "injection_id"}

\* one detection record
Row(o, e, m, f, isinj, injid) ==
    [c \in AllCols |->
        CASE c = "object_id" -> o
          [] c = "epoch_day" -> e
          [] c = "mag" -> m
          [] c = "flux" -> f
          [] c = "is_injection" -> isinj
          [] c = "injection_id" -> injid
          [] OTHER -> Num(1)]

\* a DataFrame: its columns, the dtype of the mag column ("float64", or
\* "object" when some cell of the column is not a number), and its rows
Frame(cols, dtype, rows) == [columns |-> cols, mag_dtype |-> dtype, rows |-> rows]

\* the table without column c
DropCol(df, c) ==
    [df EXCEPT !.columns = @ \ {c},
               !.rows = [i \in 1..Len(df.rows) |-> [df.rows[i] EXCEPT ![c] = NaN]]]

----------------------------------------------------------------------------
(* DataFrame.pivot_table(index='object_id', columns='epoch_day',           *)
(*                       values=col, aggfunc=how)                          *)

\* what makes pivot_table raise: a named column that is absent (KeyError),
\* or the mean of a column of strings (TypeError)
PivotRaises(df, col, how) ==
    IF ~({"object_id", "epoch_day", col} \subseteq df.columns) THEN "KeyError"
    ELSE IF col = "mag" /\ df.mag_dtype = "object" /\ how = "mean" THEN "TypeError"
    ELSE ""

\* groupby(keys) drops the rows in which a key is missing
GroupKeys(df) ==
    {<<df.rows[i]["object_id"][1], df.rows[i]["epoch_day"][1]>> :
        i \in {j \in 1..Len(df.rows) :
                  /\ ~isna(df.rows[j]["object_id"])
                  /\ ~isna(df.rows[j]["epoch_day"])}}

\* the values of col in the group k, missing values skipped
GroupValues(df, k, col) ==
    LET grp == SelectSeq(df.rows, LAMBDA r : /\ r["object_id"] = Num(k[1])
                                             /\ r["epoch_day"] = Num(k[2])
                                             /\ ~isna(r[col]))
    IN [i \in 1..Len(grp) |-> grp[i][col][1]]

\* aggfunc over one group: NaN when the group holds no value
Aggregate(df, k, col, how) ==
    LET v == GroupValues(df, k, col)
    IN IF Len(v) = 0 THEN NaN
       ELSE IF how = "mean" THEN Frac(SumSeq(v), Len(v))
       ELSE Frac(MaxSeq(v), 1)

\* the groups pivot_table keeps: dropna=True removes the all-NaN ones
KeptGroups(df, col, how) ==
    {k \in GroupKeys(df) : ~isna(Aggregate(df, k, col, how))}

\* a matrix: index (row keys), columns (column keys), values (rows of cells)
Matrix(idx, cols, vals) == [index |-> idx, columns |-> cols, values |-> vals]

pivot_table(df, col, how) ==
    LET kept == KeptGroups(df, col, how)
        idx == SortedSeq({k[1] : k \in kept})
        cols == SortedSeq({k[2] : k \in kept})
    IN Matrix(idx, cols,
              [i \in 1..Len(idx) |->
                 [j \in 1..Len(cols) |->
                    IF <<idx[i], cols[j]>> \in kept
                    THEN Aggregate(df, <<idx[i], cols[j]>>, col, how)
                    ELSE NaN]])

shape(m) == <<Len(m.index), Len(m.columns)>>

size(m) == Len(m.index) * Len(m.columns)

\* m.isna().sum().sum()
NaCount(m) ==
    Cardinality({p \in (1..Len(m.index)) \X (1..Len(m.columns)) :
                    isna(m.values[p[1]][p[2]])})

----------------------------------------------------------------------------
(* ffill / bfill / fillna along a row *)

\* forward fill: a missing cell takes the filled value of the cell before it
RECURSIVE ffill_row(_)
ffill_row(r) ==
    IF Len(r) <= 1 THEN r
    ELSE LET n == Len(r)
             p == ffill_row(SubSeq(r, 1, n - 1))
         IN Append(p, IF isna(r[n]) THEN p[n - 1] ELSE r[n])

\* backward fill: a missing cell takes the filled value of the cell after it
RECURSIVE bfill_row(_)
bfill_row(r) ==
    IF Len(r) <= 1 THEN r
    ELSE LET t == bfill_row(Tail(r))
         IN <<IF isna(r[1]) THEN t[1] ELSE r[1]>> \o t

ffill(m) == [m EXCEPT !.values = [i \in 1..Len(m.index) |-> ffill_row(m.values[i])]]

bfill(m) == [m EXCEPT !.values = [i \in 1..Len(m.index) |-> bfill_row(m.values[i])]]

fillna(m, v) ==
    [m EXCEPT !.values =
        [i \in 1..Len(m.index) |->
            [j \in 1..Len(m.columns) |->
                IF isna(m.values[i][j]) THEN Frac(v, 1) ELSE m.values[i][j]]]]

----------------------------------------------------------------------------
(* PipelineDataValidator.validate_all: the checks, one after the other.    *)
(* st holds the locals all_valid and results, and the exception that left  *)
(* the function (exc = "" while none did) with the line that raised it.    *)

NoResults == [k \in {} |-> TRUE]

Put(res, k, v) == [x \in DOMAIN res \cup {k} |-> IF x = k THEN v ELSE res[x]]

Locals0 == [all_valid |-> TRUE, results |-> NoResults, exc |-> "", line |-> 0]

Raise(st, e, ln) == [st EXCEPT !.exc = e, !.line = ln]

\* lines 28-34: required structure
ColumnsCheck(df, st) ==
    LET missing == SelectSeq(required_cols, LAMBDA col : col \notin df.columns)
    IN [st EXCEPT !.all_valid = IF missing # <<>> THEN FALSE ELSE @,
                  !.results = Put(@, "columns_ok", Len(missing) = 0)]

\* lines 36-39: NaN check; selecting an absent column raises KeyError
NanCheck(df, st) ==
    IF ~(SeqRange(critical) \subseteq df.columns) THEN Raise(st, "KeyError", 37)
    ELSE LET nan_count ==
                 Cardinality({p \in (1..Len(df.rows)) \X SeqRange(critical) :
                                 isna(df.rows[p[1]][p[2]])})
         IN [st EXCEPT !.results = Put(@, "no_nans", nan_count = 0)]

\* lines 41-57: the pivot attempt, guarded by try / except Exception.
\* 0 / 0 on numpy numbers is nan, not an exception.
PivotCheck(df, st) ==
    IF PivotRaises(df, "mag", "mean") # ""
    THEN [st EXCEPT !.results = Put(@, "matrix_ok", FALSE), !.all_valid = FALSE]
    ELSE LET ts_matrix == pivot_table(df, "mag", "mean")
             sparsity == IF size(ts_matrix) = 0 THEN NaN
                         ELSE Frac(NaCount(ts_matrix), size(ts_matrix))
         IN [st EXCEPT !.results =
                Put(Put(Put(@, "matrix_ok", TRUE), "matrix_shape", shape(ts_matrix)),
                    "sparsity", sparsity)]

\* LabelsCheck with an unmatched id failing the overall result as well
LabelsCheck_Gating(df, injections_df, st) ==
    IF ~({"is_injection", "injection_id"} \subseteq df.columns)
    THEN Raise(st, "KeyError", 61)
    ELSE IF "injection_id" \notin injections_df.columns THEN Raise(st, "KeyError", 65)
    ELSE LET flagged == SelectSeq(df.rows, LAMBDA r : r["is_injection"] = Num(1))
             inj_from_dets == {flagged[i]["injection_id"] : i \in 1..Len(flagged)} \ {NaN}
             inj_from_table == {injections_df.rows[i]["injection_id"] :
                                   i \in 1..Len(injections_df.rows)}
             unmatched == inj_from_dets \ inj_from_table
         IN [st EXCEPT !.results = Put(@, "labels_match", Cardinality(unmatched) = 0),
                       !.all_valid = IF unmatched # {} THEN FALSE ELSE @]

\* lines 59-68: label consistency
LabelsCheck(df, injections_df, st) ==
    IF ~({"is_injection", "injection_id"} \subseteq df.columns)
    THEN Raise(st, "KeyError", 61)
    ELSE IF "injection_id" \notin injections_df.columns THEN Raise(st, "KeyError", 65)
    ELSE LET flagged == SelectSeq(df.rows, LAMBDA r : r["is_injection"] = Num(1))
             inj_from_dets == {flagged[i]["injection_id"] : i \in 1..Len(flagged)} \ {NaN}
             inj_from_table == {injections_df.rows[i]["injection_id"] :
                                   i \in 1..Len(injections_df.rows)}
             unmatched == inj_from_dets \ inj_from_table
         IN [st EXCEPT !.results = Put(@, "labels_match", Cardinality(unmatched) = 0)]

mag_lo == 10
mag_hi == 30

\* RangeCheck with the limits themselves counted as outliers
RangeCheck_Strict(df, st) ==
    IF df.mag_dtype = "object" THEN Raise(st, "TypeError", 71)
    ELSE LET mag_outliers ==
                 Cardinality({i \in 1..Len(df.rows) :
                                 /\ ~isna(df.rows[i]["mag"])
                                 /\ \/ df.rows[i]["mag"][1] <= mag_lo
                                    \/ df.rows[i]["mag"][1] >= mag_hi})
             neg_flux ==
                 Cardinality({i \in 1..Len(df.rows) :
                                 /\ ~isna(df.rows[i]["flux"])
                                 /\ df.rows[i]["flux"][1] < 0})
         IN [st EXCEPT !.results =
                Put(@, "reasonable_ranges", mag_outliers = 0 /\ neg_flux = 0)]

\* lines 70-74: sanity checks; comparing a column of strings with a number
\* raises TypeError; a comparison with NaN is false
RangeCheck(df, st) ==
    IF df.mag_dtype = "object" THEN Raise(st, "TypeError", 71)
    ELSE LET mag_outliers ==
                 Cardinality({i \in 1..Len(df.rows) :
                                 /\ ~isna(df.rows[i]["mag"])
                                 /\ \/ df.rows[i]["mag"][1] < mag_lo
                                    \/ df.rows[i]["mag"][1] > mag_hi})
             neg_flux ==
                 Cardinality({i \in 1..Len(df.rows) :
                                 /\ ~isna(df.rows[i]["flux"])
                                 /\ df.rows[i]["flux"][1] < 0})
         IN [st EXCEPT !.results =
                Put(@, "reasonable_ranges", mag_outliers = 0 /\ neg_flux = 0)]

\* a check runs unless an exception already propagates
Then(st, Check(_)) == IF st.exc # "" THEN st ELSE Check(st)

\* lines 25-77 of validate_all, after the three reads
validate_checks(df, injections_df) ==
    LET s1 == ColumnsCheck(df, Locals0)
        s2 == Then(s1, LAMBDA s : NanCheck(df, s))
        s3 == Then(s2, LAMBDA s : PivotCheck(df, s))
        s4 == Then(s3, LAMBDA s : LabelsCheck(df, injections_df, s))
        s5 == Then(s4, LAMBDA s : RangeCheck(df, s))
    IN s5

----------------------------------------------------------------------------
(* Files *)

Join(dir, name) == dir \o <<name>>

DataDir == <<"data">>

\* output_dir = None means data_dir / "outputs"
OutDir(dd, od) == IF od = <<>> THEN Join(dd, "outputs") ELSE od

InputNames == {"detections.csv", "injections.csv", "object_meta.csv"}

OutputNames == {"time_series_matrix.csv", "anomaly_labels.csv", "data_metadata.json"}

OutputDirArgs == {<<>>, DataDir, <<"out">>}

AllDirs == {OutDir(DataDir, od) : od \in OutputDirArgs}

Paths == {Join(d, n) : d \in AllDirs, n \in InputNames \cup OutputNames}

\* a directory and its parents
RECURSIVE Parents(_)
Parents(d) == IF Len(d) = 0 THEN {} ELSE {d} \cup Parents(SubSeq(d, 1, Len(d) - 1))

read_csv(files, path) == files[path][1]

write(files, path, content) == [files EXCEPT ![path] = <<content>>]

----------------------------------------------------------------------------
(* validate_all, step by step: three reads, then the checks *)

VReadDetections ==
    /\ vpc = "start"
    /\ v_dets' = read_csv(fs, Join(data_dir, "detections.csv"))
    /\ vpc' = "read_injections"
    /\ UNCHANGED <<fs, dirs, data_dir, output_dir, v_inj, v_meta, v_out, tvars>>

VReadInjections ==
    /\ vpc = "read_injections"
    /\ v_inj' = read_csv(fs, Join(data_dir, "injections.csv"))
    /\ vpc' = "read_meta"
    /\ UNCHANGED <<fs, dirs, data_dir, output_dir, v_dets, v_meta, v_out, tvars>>

VReadMeta ==
    /\ vpc = "read_meta"
    /\ v_meta' = read_csv(fs, Join(data_dir, "object_meta.csv"))
    /\ vpc' = "checks"
    /\ UNCHANGED <<fs, dirs, data_dir, output_dir, v_dets, v_inj, v_out, tvars>>

VChecks ==
    /\ vpc = "checks"
    /\ v_out' = validate_checks(v_dets, v_inj)
    /\ vpc' = IF v_out'.exc = "" THEN "returned" ELSE "raised"
    /\ UNCHANGED <<fs, dirs, data_dir, output_dir, v_dets, v_inj, v_meta, tvars>>

validate_all == VReadDetections \/ VReadInjections \/ VReadMeta \/ VChecks

----------------------------------------------------------------------------
(* create_pipeline_ready_data, step by step *)

\* labels.values.mean(): the cells of a max-aggregated, 0-filled matrix are
\* whole numbers n/1; the mean of no cell is nan
values_mean(m) ==
    IF size(m) = 0 THEN NaN
    ELSE LET rowsum == [i \in 1..Len(m.index) |->
                           SumSeq([j \in 1..Len(m.columns) |-> m.values[i][j][1]])]
         IN Frac(SumSeq(rowsum), size(m))

\* build_ts without the backward fill
build_ts_NoBfill(df) == ffill(pivot_table(df, "mag", "mean"))

\* build_ts filling backward first, then forward
build_ts_BfillFirst(df) == ffill(bfill(pivot_table(df, "mag", "mean")))

\* lines 91-97
build_ts(df) == bfill(ffill(pivot_table(df, "mag", "mean")))

\* build_labels aggregating with the mean, as the time series does
build_labels_Mean(df) == fillna(pivot_table(df, "is_injection", "mean"), 0)

\* lines 103-108
build_labels(df) == fillna(pivot_table(df, "is_injection", "max"), 0)

\* lines 114-120
build_metadata(t, l) ==
    [n_objects |-> shape(t)[1],
     n_timestamps |-> shape(t)[2],
     anomaly_rate |-> values_mean(l),
     data_type |-> "time_series",
     source |-> "uploaded_dataset"]

\* the time-series matrix written over the input table
ts_path_Input == Join(data_dir, "detections.csv")

\* the files create_pipeline_ready_data writes
ts_path == Join(OutDir(data_dir, output_dir), "time_series_matrix.csv")
labels_path == Join(OutDir(data_dir, output_dir), "anomaly_labels.csv")
meta_path == Join(OutDir(data_dir, output_dir), "data_metadata.json")

TMkdir ==
    /\ tpc = "start"
    /\ dirs' = dirs \cup Parents(OutDir(data_dir, output_dir))
    /\ tpc' = "read_detections"
    /\ UNCHANGED <<fs, data_dir, output_dir, vvars, t_dets, ts, labels, metadata>>

TReadDetections ==
    /\ tpc = "read_detections"
    /\ t_dets' = read_csv(fs, Join(data_dir, "detections.csv"))
    /\ tpc' = "build_ts"
    /\ UNCHANGED <<fs, dirs, data_dir, output_dir, vvars, ts, labels, metadata>>

TBuildTs ==
    /\ tpc = "build_ts"
    /\ IF PivotRaises(t_dets, "mag", "mean") # ""
       THEN /\ tpc' = "raised"
            /\ UNCHANGED <<fs, ts>>
       ELSE /\ ts' = build_ts(t_dets)
            /\ fs' = write(fs, ts_path, ts')
            /\ tpc' = "build_labels"
    /\ UNCHANGED <<dirs, data_dir, output_dir, vvars, t_dets, labels, metadata>>

TBuildLabels ==
    /\ tpc = "build_labels"
    /\ IF PivotRaises(t_dets, "is_injection", "max") # ""
       THEN /\ tpc' = "raised"
            /\ UNCHANGED <<fs, labels>>
       ELSE /\ labels' = build_labels(t_dets)
            /\ fs' = write(fs, labels_path, labels')
            /\ tpc' = "write_metadata"
    /\ UNCHANGED <<dirs, data_dir, output_dir, vvars, t_dets, ts, metadata>>

TWriteMetadata ==
    /\ tpc = "write_metadata"
    /\ metadata' = build_metadata(ts, labels)
    /\ fs' = write(fs, meta_path, metadata')
    /\ tpc' = "returned"
    /\ UNCHANGED <<dirs, data_dir, output_dir, vvars, t_dets, ts, labels>>

create_pipeline_ready_data ==
    TMkdir \/ TReadDetections \/ TBuildTs \/ TBuildLabels \/ TWriteMetadata

----------------------------------------------------------------------------
(* Inputs: the contents of the three CSV files *)

\* a detections table as read from a CSV: every column present and mag
\* numeric (variant ""), the mag column read as strings (variant "object":
\* some cell of it is not a number), or one column absent (variant = its name)
Variant(rows, v) ==
    IF v = "" THEN Frame(AllCols, "float64", rows)
    ELSE IF v = "object" THEN Frame(AllCols, "object", rows)
    ELSE DropCol(Frame(AllCols, "float64", rows), v)

\* some detection has both keys and a value in col
HasKeyed(rows, col) ==
    \E i \in 1..Len(rows) : /\ ~isna(rows[i]["object_id"])
                            /\ ~isna(rows[i]["epoch_day"])
                            /\ ~isna(rows[i][col])

\* the tables drawn hold at least one detection with keys and a mag, and one
\* with keys and a label, so that neither pivot is empty
Usable(rows) == HasKeyed(rows, "mag") /\ HasKeyed(rows, "is_injection")

InjFrame(ids) ==
    [columns |-> {"injection_id"},
     rows |-> [i \in 1..Len(ids) |-> [c \in {"injection_id"} |-> Num(ids[i])]]]

InjectionTables == {InjFrame(<<>>), InjFrame(<<5>>)}

MetaFrame == [columns |-> {"object_id"}, rows |-> <<>>]

\* rows for the validator: three plain detections, then rows that differ from
\* the first in one respect (a missing value, a value at or beyond a range
\* limit, an injection label)
ValidatorRows ==
    {Row(Num(1), Num(1), Num(12), Num(1), Num(0), NaN),
     Row(Num(2), Num(2), Num(12), Num(1), Num(0), NaN),
     Row(Num(1), Num(2), Num(20), Num(1), Num(0), NaN),
     Row(NaN, Num(1), Num(12), Num(1), Num(0), NaN),
     Row(Num(1), NaN, Num(12), Num(1), Num(0), NaN),
     Row(Num(1), Num(1), NaN, Num(1), Num(0), NaN),
     Row(Num(1), Num(1), Num(12), NaN, Num(0), NaN),
     Row(Num(1), Num(1), Num(9), Num(1), Num(0), NaN),
     Row(Num(1), Num(1), Num(10), Num(1), Num(0), NaN),
     Row(Num(1), Num(1), Num(30), Num(1), Num(0), NaN),
     Row(Num(1), Num(1), Num(35), Num(1), Num(0), NaN),
     Row(Num(1), Num(1), Num(12), Num(-1), Num(0), NaN),
     Row(Num(1), Num(1), Num(12), Num(0), Num(0), NaN),
     Row(Num(1), Num(1), Num(12), Num(1), Num(1), Num(5)),
     Row(Num(1), Num(1), Num(12), Num(1), Num(1), Num(6)),
     Row(Num(1), Num(1), Num(12), Num(1), Num(1), NaN),
     Row(Num(1), Num(1), Num(12), Num(1), Num(0), Num(6))}

ValidatorVariants == {"", "object"} \cup SeqRange(required_cols)

\* rows for the transformer: 2 objects x 2 epochs, mag missing / 5 / 8,
\* and rows with a missing key or a missing label
TransformerRows ==
    {Row(Num(o), Num(e), mi[1], Num(1), mi[2], NaN) :
        o \in 1..2, e \in 1..2, mi \in {<<NaN, Num(0)>>, <<Num(5), Num(0)>>, <<Num(8), Num(1)>>}}
    \cup {Row(NaN, Num(1), Num(5), Num(1), Num(1), NaN),
          Row(Num(1), NaN, Num(5), Num(1), Num(1), NaN),
          Row(Num(1), Num(1), Num(5), Num(1), NaN, NaN)}

\* an observation mask: object o is seen at the epochs of mask[o], with
\* mag = epoch + 3; object 2 is an injected source
MaskRows(mask) ==
    LET cells == {<<o, e>> \in (1..2) \X (1..NEpochs) : e \in mask[o]}
        order == SortedSeq({c[1] * (NEpochs + 1) + c[2] : c \in cells})
    IN [i \in 1..Len(order) |->
          LET o == order[i] \div (NEpochs + 1)
              e == order[i] % (NEpochs + 1)
          IN Row(Num(o), Num(e), Num(e + 3), Num(1), Num(IF o = 2 THEN 1 ELSE 0), NaN)]

TransformerVariants == {"", "object", "mag", "is_injection"}

\* rows for the two operations running side by side
SharedRows ==
    {Row(Num(1), Num(1), Num(12), Num(1), Num(0), NaN),
     Row(Num(2), Num(2), NaN, Num(1), Num(0), NaN),
     Row(Num(1), Num(2), Num(35), Num(1), Num(1), Num(6))}

SharedVariants == {"", "object"}

NoFiles == [p \in Paths |-> <<>>]

\* the state when the operations are called on a data directory holding
\* the detections table dets and the injections table inj
InitWith(dets, inj, od) ==
    /\ data_dir = DataDir
    /\ output_dir = od
    /\ dirs = {DataDir}
    /\ fs = [NoFiles EXCEPT ![Join(DataDir, "detections.csv")] = <<dets>>,
                            ![Join(DataDir, "injections.csv")] = <<inj>>,
                            ![Join(DataDir, "object_meta.csv")] = <<MetaFrame>>]
    /\ vpc = "start"
    /\ v_dets = <<>>
    /\ v_inj = <<>>
    /\ v_meta = <<>>
    /\ v_out = Locals0
    /\ tpc = "start"
    /\ t_dets = <<>>
    /\ ts = <<>>
    /\ labels = <<>>
    /\ metadata = <<>>

Init ==
    \E n \in 1..MaxDets :
        \E rows \in [1..n -> SharedRows], v \in SharedVariants,
           inj \in InjectionTables, od \in OutputDirArgs :
            /\ Usable(rows)
            /\ InitWith(Variant(rows, v), inj, od)

InitValidator ==
    \E n \in 1..MaxDets :
        \E rows \in [1..n -> ValidatorRows], v \in ValidatorVariants,
           inj \in InjectionTables :
            /\ Usable(rows)
            /\ InitWith(Variant(rows, v), inj, <<>>)

InitTransformer ==
    \/ \E n \in 1..MaxDets :
          \E rows \in [1..n -> TransformerRows], v \in TransformerVariants :
              /\ Usable(rows)
              /\ InitWith(Variant(rows, v), InjFrame(<<5>>), <<>>)
    \/ \E mask \in [1..2 -> SUBSET (1..NEpochs)] :
          /\ Usable(MaskRows(mask))
          /\ InitWith(Variant(MaskRows(mask), ""), InjFrame(<<5>>), <<>>)

Next == validate_all \/ create_pipeline_ready_data

\* the two operations in separate processes over one data directory
Spec == Init /\ [][Next]_vars

\* validate_all alone
SpecValidator == InitValidator /\ [][validate_all]_vars

\* create_pipeline_ready_data alone
SpecTransformer == InitTransformer /\ [][create_pipeline_ready_data]_vars

----------------------------------------------------------------------------
(* Properties of validate_all (checked under SpecValidator) *)

VDone == vpc \in {"returned", "raised"}

Has(k) == k \in DOMAIN v_out.results

Res(k) == v_out.results[k]

AnyCriticalMissing ==
    \E i \in 1..Len(v_dets.rows), c \in SeqRange(critical) : isna(v_dets.rows[i][c])

\* C1: for each of the six required columns, validate_all on a table that
\* lacks that column returns a report with columns_ok = false and
\* overall_pass = false.
C1_MissingColumnReported ==
    \A c \in SeqRange(required_cols) :
        (VDone /\ c \notin v_dets.columns) =>
            /\ vpc = "returned"
            /\ Res("columns_ok") = FALSE
            /\ v_out.all_valid = FALSE

\* C2: when a detection has a missing value in object_id, epoch_day, mag or
\* flux, validate_all reports no_nans = false and overall_pass = false; when
\* no such value is missing, no_nans = true.
C2_MissingValueFailsOverall ==
    (vpc = "returned") =>
        IF AnyCriticalMissing
        THEN Res("no_nans") = FALSE /\ v_out.all_valid = FALSE
        ELSE Res("no_nans") = TRUE

\* the pivot step was reached: the function did not leave at line 37
PivotReached == VDone /\ ~(v_out.exc # "" /\ v_out.line <= 37)

\* the matrix cannot be constructed: mean over a mag column of strings
PivotFailed == v_dets.mag_dtype = "object"

\* C3: a failure raised while constructing the object x epoch matrix does
\* not propagate: validate_all returns a report with matrix_ok = false and
\* overall_pass = false, the remaining checks (labels_match,
\* reasonable_ranges) having run; when the construction succeeds the report
\* holds matrix_ok = true, matrix_shape and sparsity.
C3_PivotFailureReported ==
    PivotReached =>
        IF PivotFailed
        THEN /\ vpc = "returned"
             /\ Res("matrix_ok") = FALSE
             /\ v_out.all_valid = FALSE
             /\ Has("labels_match")
             /\ Has("reasonable_ranges")
        ELSE /\ Res("matrix_ok") = TRUE
             /\ Has("matrix_shape") /\ Has("sparsity")

\* every injection_id carried by a detection flagged is_injection = 1 occurs
\* in the injections table
AllLabelsKnown ==
    \A i \in 1..Len(v_dets.rows) :
        (v_dets.rows[i]["is_injection"] = Num(1) /\ ~isna(v_dets.rows[i]["injection_id"]))
            => \E j \in 1..Len(v_inj.rows) :
                  v_inj.rows[j]["injection_id"] = v_dets.rows[i]["injection_id"]

\* C4: labels_match = true exactly when every injection_id carried by a
\* detection with is_injection = 1 occurs in the injections table; its value
\* never changes overall_pass, which is what the column and pivot checks
\* yield.
C4_LabelsMatch ==
    (VDone /\ Has("labels_match")) =>
        /\ Res("labels_match") = AllLabelsKnown
        /\ v_out.all_valid = (Res("columns_ok") /\ Res("matrix_ok"))

C4_Witness ==
    /\ vpc = "returned"
    /\ Res("labels_match") = FALSE
    /\ v_out.all_valid = TRUE
    /\ \E i \in 1..Len(v_dets.rows) : v_dets.rows[i]["injection_id"] = Num(6)

NoRangeOutlier ==
    /\ \A i \in 1..Len(v_dets.rows) :
          isna(v_dets.rows[i]["mag"]) \/ (/\ v_dets.rows[i]["mag"][1] >= 10
                                         /\ v_dets.rows[i]["mag"][1] <= 30)
    /\ \A i \in 1..Len(v_dets.rows) :
          isna(v_dets.rows[i]["flux"]) \/ v_dets.rows[i]["flux"][1] >= 0

\* C5: reasonable_ranges = true exactly when no detection has mag below 10
\* or above 30 and none has negative flux; its value never changes
\* overall_pass.
C5_ReasonableRanges ==
    (vpc = "returned") =>
        /\ Res("reasonable_ranges") = NoRangeOutlier
        /\ (~Res("reasonable_ranges") /\ Res("columns_ok") /\ Res("matrix_ok"))
               => v_out.all_valid = TRUE

C5_Witness ==
    /\ vpc = "returned"
    /\ Res("reasonable_ranges") = FALSE
    /\ v_out.all_valid = TRUE
    /\ \E i \in 1..Len(v_dets.rows) : v_dets.rows[i]["mag"] = Num(35)

----------------------------------------------------------------------------
(* Properties of create_pipeline_ready_data (checked under SpecTransformer) *)

TsBuilt == fs[ts_path] # <<>>

LabelsBuilt == fs[labels_path] # <<>>

MetaWritten == fs[meta_path] # <<>>

\* the mags of the detections of object o at epoch e, missing ones skipped
MagsAt(o, e) ==
    SelectSeq([i \in 1..Len(t_dets.rows) |-> t_dets.rows[i]],
              LAMBDA r : /\ r["object_id"] = Num(o)
                         /\ r["epoch_day"] = Num(e)
                         /\ ~isna(r["mag"]))

Observed(o, e) == Len(MagsAt(o, e)) > 0

\* the fraction c is the mean of the mags of (o, e)
IsMeanMag(c, o, e) ==
    /\ Len(c) = 2
    /\ c[1] * Len(MagsAt(o, e)) =
           c[2] * SumSeq([k \in 1..Len(MagsAt(o, e)) |-> MagsAt(o, e)[k]["mag"][1]])

\* C6: the time-series matrix returned and written has no missing cell: an
\* observed cell keeps its mean mag, an unobserved cell holds the most
\* recent prior observed value of its row, and a leading unobserved cell
\* holds the next observed value of its row.
C6_FilledMatrix ==
    TsBuilt =>
        /\ fs[ts_path] = <<ts>>
        /\ \A i \in 1..Len(ts.index), j \in 1..Len(ts.columns) :
              LET o == ts.index[i]
                  prior == {q \in 1..(j - 1) : Observed(o, ts.columns[q])}
                  later == {q \in (j + 1)..Len(ts.columns) : Observed(o, ts.columns[q])}
                  src == IF Observed(o, ts.columns[j]) THEN j
                         ELSE IF prior # {}
                              THEN CHOOSE q \in prior : \A r \in prior : r <= q
                              ELSE CHOOSE q \in later : \A r \in later : q <= r
              IN /\ ~isna(ts.values[i][j])
                 /\ Observed(o, ts.columns[j]) \/ prior # {} \/ later # {}
                 /\ IsMeanMag(ts.values[i][j], o, ts.columns[src])

\* a matrix with a leading gap in a row and a gap after an observed cell
C6_Witness ==
    /\ TsBuilt
    /\ \E i \in 1..Len(ts.index) :
          /\ Len(ts.columns) >= 2
          /\ ~Observed(ts.index[i], ts.columns[1])
    /\ \E i \in 1..Len(ts.index), j \in 2..Len(ts.columns) :
          /\ ~Observed(ts.index[i], ts.columns[j])
          /\ Observed(ts.index[i], ts.columns[j - 1])

\* the row of the unfilled matrix is [missing, 5.0, missing, 7.0, missing]
\* over five epochs
GapRow(i) ==
    /\ Len(ts.columns) = 5
    /\ \A j \in 1..5 : Observed(ts.index[i], ts.columns[j]) <=> j \in {2, 4}
    /\ IsMeanMag(<<5, 1>>, ts.index[i], ts.columns[2])
    /\ IsMeanMag(<<7, 1>>, ts.index[i], ts.columns[4])

\* C7 as stated: the filled row is [5.0, 5.0, 7.0, 7.0, 7.0]
C7_AsStated ==
    TsBuilt => \A i \in 1..Len(ts.index) :
        GapRow(i) => ts.values[i] = <<<<5, 1>>, <<5, 1>>, <<7, 1>>, <<7, 1>>, <<7, 1>>>>

\* C7, amended: for an object whose mags at five consecutive epochs are
\* [missing, 5.0, missing, 7.0, missing], the row of the time-series matrix
\* is [5.0, 5.0, 5.0, 7.0, 7.0] (the inner gap takes the prior value).
C7_ForwardFirst ==
    TsBuilt => \A i \in 1..Len(ts.index) :
        GapRow(i) => ts.values[i] = <<<<5, 1>>, <<5, 1>>, <<5, 1>>, <<7, 1>>, <<7, 1>>>>

C7_Witness == TsBuilt /\ \E i \in 1..Len(ts.index) : GapRow(i)

\* C8: the label matrix has the row keys and the column keys of the
\* time-series matrix of the same call, and metadata n_objects and
\* n_timestamps are the row and column counts of both, also when some
\* detections have a missing mag.
C8_AlignedLabels ==
    /\ LabelsBuilt => (labels.index = ts.index /\ labels.columns = ts.columns)
    /\ MetaWritten => /\ metadata.n_objects = Len(labels.index)
                      /\ metadata.n_timestamps = Len(labels.columns)

\* some detection of object o at epoch e is flagged as an injection
FlaggedAt(o, e) ==
    \E i \in 1..Len(t_dets.rows) : /\ t_dets.rows[i]["object_id"] = Num(o)
                                   /\ t_dets.rows[i]["epoch_day"] = Num(e)
                                   /\ t_dets.rows[i]["is_injection"] = Num(1)

OneCells == {p \in (1..Len(labels.index)) \X (1..Len(labels.columns)) :
                labels.values[p[1]][p[2]] = <<1, 1>>}

\* C9: every cell of the label matrix is 0 or 1, 1 exactly where some
\* detection at that (object, epoch) is flagged, and metadata anomaly_rate
\* is the mean of all cells of the label matrix.
C9_BinaryLabels ==
    /\ LabelsBuilt =>
          /\ fs[labels_path] = <<labels>>
          /\ \A i \in 1..Len(labels.index), j \in 1..Len(labels.columns) :
                /\ labels.values[i][j] \in {<<0, 1>>, <<1, 1>>}
                /\ labels.values[i][j] = <<1, 1>>
                       <=> FlaggedAt(labels.index[i], labels.columns[j])
    /\ MetaWritten =>
          /\ fs[meta_path] = <<metadata>>
          /\ IF size(labels) = 0 THEN isna(metadata.anomaly_rate)
             ELSE /\ Len(metadata.anomaly_rate) = 2
                  /\ metadata.anomaly_rate[1] * size(labels)
                         = metadata.anomaly_rate[2] * Cardinality(OneCells)

\* some cell is 1 and the rate lies strictly between 0 and 1
C9_Witness ==
    /\ MetaWritten
    /\ OneCells # {}
    /\ Len(metadata.anomaly_rate) = 2
    /\ metadata.anomaly_rate[1] < metadata.anomaly_rate[2]

----------------------------------------------------------------------------
(* The two operations side by side (checked under Spec) *)

InputPaths == {Join(data_dir, n) : n \in InputNames}

OutputPaths == {Join(OutDir(data_dir, output_dir), n) : n \in OutputNames}

\* C10: under every interleaving of the file reads and writes of
\* validate_all and create_pipeline_ready_data on one data directory, no
\* step writes detections.csv, injections.csv or object_meta.csv, the only
\* files written are the transformer's time_series_matrix.csv,
\* anomaly_labels.csv and data_metadata.json in its output directory, and
\* validate_all ends with the result it has on the files alone.
C10_ConcurrentSafe ==
    [][/\ \A p \in InputPaths : fs'[p] = fs[p]
       /\ \A p \in Paths : fs'[p] # fs[p] => (p \in OutputPaths /\ tpc' # tpc /\ vpc' = vpc)
       /\ (vpc' # vpc /\ vpc' \in {"returned", "raised"}) =>
             v_out' = validate_checks(read_csv(fs, Join(data_dir, "detections.csv")),
                                      read_csv(fs, Join(data_dir, "injections.csv")))
      ]_vars

\* both ran to the end, the transformer having written its three files
\* into the data directory itself
C10_Witness ==
    /\ vpc = "returned"
    /\ tpc = "returned"
    /\ output_dir = data_dir
    /\ \A p \in OutputPaths : fs[p] # <<>>

====
